---- MODULE Spec2Model ----
(***************************************************************************)
(* Bronze DBO Trans HST2 webhook service (src/main.py).                    *)
(*                                                                         *)
(* The service keeps two module-level globals, record_counter and          *)
(* bronze_storage, and serves them through FastAPI coroutines that run on  *)
(* one event loop: a coroutine is interrupted only at an await.            *)
(*                                                                         *)
(* Python values are modelled as records [t, s, m]:                        *)
(*   t  the Python type ("null", "int", "str", "dict", "list"),            *)
(*   s  the text of the value as a sequence of pieces: the decimal digits  *)
(*      of an int (with a leading "-" when negative), the characters of a  *)
(*      str (a text the service builds is one named piece),                *)
(*   m  the key -> value mapping of a dict.                                *)
(* Integers are kept as digit sequences because epoch-millisecond          *)
(* timestamps (about 1.7 * 10^12) exceed the 32-bit integers of TLC.       *)
(***************************************************************************)
EXTENDS Integers, Sequences, FiniteSets, TLC

VARIABLES
    record_counter,   \* src/main.py:64  global record_counter
    bronze_storage,   \* src/main.py:65  global bronze_storage (arrival order)
    inflight,         \* per handler: the coroutine of receive_bronze_record
    response,         \* the HTTP response of the request that completed last
    next_uuid,        \* number of BronzeTransHst2 objects constructed (uuid4 stand-in)
    started,          \* number of POST requests accepted by the server so far
    resets,           \* history: number of resets so far
    overlapped,       \* history: some append landed while another POST was suspended
    arrivals,         \* history: the appends since the last reset, in order
    last_body,        \* history: body of the POST that completed last
    pydantic          \* major version of the installed pydantic (1 or 2)

vars == <<record_counter, bronze_storage, inflight, response, next_uuid,
          started, resets, overlapped, arrivals, last_body, pydantic>>

-----------------------------------------------------------------------------
(* Python values *)

NoMap == <<>>

NULL == [t |-> "null", s |-> <<>>, m |-> NoMap]

PyInt(digits) == [t |-> "int", s |-> digits, m |-> NoMap]

PyStr(chars) == [t |-> "str", s |-> chars, m |-> NoMap]

PyDict(mapping) == [t |-> "dict", s |-> <<>>, m |-> mapping]

PyList(items) == [t |-> "list", s |-> items, m |-> NoMap]

DigitChars == <<"0", "1", "2", "3", "4", "5", "6", "7", "8", "9">>

Digits == {DigitChars[i] : i \in 1..Len(DigitChars)}

DigitVal(c) == (CHOOSE i \in 1..Len(DigitChars) : DigitChars[i] = c) - 1

AllDigits(chars) == Len(chars) > 0 /\ \A i \in 1..Len(chars) : chars[i] \in Digits

RECURSIVE StripZeros(_)
\* the canonical decimal text of a non-negative numeral: no leading zeros
StripZeros(d) ==
    IF Len(d) > 1 /\ Head(d) = "0" THEN StripZeros(Tail(d)) ELSE d

RECURSIVE DigitsLess(_, _)
\* a < b for canonical non-negative numerals
DigitsLess(a, b) ==
    IF Len(a) # Len(b) THEN Len(a) < Len(b)
    ELSE IF Len(a) = 0 THEN FALSE
    ELSE IF Head(a) # Head(b) THEN DigitVal(Head(a)) < DigitVal(Head(b))
    ELSE DigitsLess(Tail(a), Tail(b))

IsNegative(n) == Len(n.s) > 0 /\ Head(n.s) = "-"

Magnitude(n) == IF IsNegative(n) THEN Tail(n.s) ELSE n.s

\* a < b for Python ints
IntLess(a, b) ==
    IF IsNegative(a) /\ ~IsNegative(b) THEN TRUE
    ELSE IF ~IsNegative(a) /\ IsNegative(b) THEN FALSE
    ELSE IF IsNegative(a) THEN DigitsLess(Magnitude(b), Magnitude(a))
    ELSE DigitsLess(Magnitude(a), Magnitude(b))

\* bool(v): None, 0, "", {} and [] are falsy
Truthy(v) ==
    CASE v.t = "null" -> FALSE
      [] v.t = "int"  -> v.s # <<"0">>
      [] v.t = "str"  -> Len(v.s) > 0
      [] v.t = "dict" -> DOMAIN v.m # {}
      [] v.t = "list" -> Len(v.s) > 0
      [] OTHER        -> TRUE

\* str(v) for the values that reach it
Repr(v) ==
    CASE v.t = "int"  -> PyStr(v.s)
      [] v.t = "str"  -> v
      [] v.t = "dict" -> PyStr(<<"{", "}">>)
      [] v.t = "list" -> PyStr(<<"[", "]">>)
      [] OTHER        -> PyStr(<<"N", "o", "n", "e">>)

-----------------------------------------------------------------------------
(* BronzeTransHst2: the 21 business fields and their declared types *)

IntFields ==
    {"authorizer_usrnbr", "creat_usrnbr", "four_eye_on", "next_seqnbr", "oper",
     "owner_usrnbr", "protection", "record_id", "seqnbr", "size", "transnbr",
     "trans_record_type", "updat_usrnbr", "version"}

TimeFields == {"creat_time", "updat_time"}

StrFields ==
    {"data", "description", "description2", "external_user", "name"} \cup TimeFields

FieldNames == IntFields \cup StrFields

\* stands for an exception raised where a value was expected
Failure == [t |-> "error", s |-> <<>>, m |-> NoMap]

IsError(v) == v.t = "error"

\* int(text): the value of a decimal numeral with an optional sign, or "error"
\* (ValueError) for any other text
ParseInt(chars) ==
    IF AllDigits(chars) THEN PyInt(StripZeros(chars))
    ELSE IF Len(chars) > 1 /\ Head(chars) = "-" /\ AllDigits(Tail(chars))
    THEN IF StripZeros(Tail(chars)) = <<"0">> THEN PyInt(<<"0">>)
         ELSE PyInt(<<"-">> \o StripZeros(Tail(chars)))
    ELSE Failure

ValidationError == Failure

\* pydantic v2 refuses an int for a str field; v1 coerces it with str()
CoerceIntToStr(v, version) == IF version = 1 THEN Repr(v) ELSE ValidationError

\* pydantic's validation of one keyword argument of BronzeTransHst2(...)
ValidateField(f, v, version) ==
    IF v.t = "null" THEN NULL
    ELSE IF f \in IntFields THEN
        CASE v.t = "int" -> v
          [] v.t = "str" -> ParseInt(v.s)
          [] OTHER       -> ValidationError
    ELSE
        CASE v.t = "str" -> v
          [] v.t = "int" -> CoerceIntToStr(v, version)
          [] OTHER       -> ValidationError

\* the outcome of a call: a value, or the exception it raised
Returned(fields) == [ok |-> TRUE, fields |-> fields, exc |-> "none"]

Raised(exc) == [ok |-> FALSE, fields |-> [f \in FieldNames |-> NULL], exc |-> exc]

\* BronzeTransHst2(**kwargs): every keyword validated, one failure fails the call
BronzeTransHst2(kwargs, version) ==
    IF \E f \in FieldNames : IsError(ValidateField(f, kwargs[f], version))
    THEN Raised("ValidationError")
    ELSE Returned([f \in FieldNames |-> ValidateField(f, kwargs[f], version)])

-----------------------------------------------------------------------------
(* ConfluentMessageParser._convert_timestamp *)

\* 1e12, the milliseconds threshold
MillisThreshold == <<"1", "0", "0", "0", "0", "0", "0", "0", "0", "0", "0", "0", "0">>

\* datetime.fromtimestamp accepts years 1..9999: at most 253402300799 seconds and
\* at least -62135596800 seconds
MaxEpochSeconds == <<"2", "5", "3", "4", "0", "2", "3", "0", "0", "7", "9", "9">>

MinEpochSecondsMagnitude == <<"6", "2", "1", "3", "5", "5", "9", "6", "8", "0", "0">>

\* a str: the ISO-8601 text of the instant `millis` (signed epoch milliseconds)
IsoFormat(millis) == PyStr(<<"iso:">> \o millis)

\* is timestamp_value > 1e12
IsMillis(v) == ~IsNegative(v) /\ DigitsLess(MillisThreshold, v.s)

\* datetime.fromtimestamp(seconds).isoformat() or "error" when out of range
FromSeconds(v) ==
    IF IsNegative(v)
    THEN IF DigitsLess(MinEpochSecondsMagnitude, Magnitude(v)) THEN Failure
         ELSE IsoFormat(v.s \o <<"0", "0", "0">>)
    ELSE IF DigitsLess(MaxEpochSeconds, v.s) THEN Failure
         ELSE IsoFormat(v.s \o <<"0", "0", "0">>)

\* datetime.fromtimestamp(millis / 1000).isoformat() for millis > 1e12
FromMillis(v) ==
    IF DigitsLess(MaxEpochSeconds \o <<"9", "9", "9">>, v.s) THEN Failure
    ELSE IsoFormat(v.s)

\* the isinstance(timestamp_value, (int, float)) branch with its except: the ISO
\* text, or str(timestamp_value) when fromtimestamp raises
IsoOrText(timestamp_value) ==
    LET iso == IF IsMillis(timestamp_value) THEN FromMillis(timestamp_value)
               ELSE FromSeconds(timestamp_value)
    IN  IF IsError(iso) THEN Repr(timestamp_value) ELSE iso

convert_timestamp(timestamp_value) ==
    IF ~Truthy(timestamp_value) THEN NULL
    ELSE IF timestamp_value.t = "str" THEN timestamp_value
    ELSE IF timestamp_value.t = "int" THEN IsoOrText(timestamp_value)
    ELSE Repr(timestamp_value)

-----------------------------------------------------------------------------
(* Request bodies.  A body is                                              *)
(*   kind "bytes": bytes that are not valid UTF-8,                         *)
(*   kind "json" : text json.loads accepts, with doc the value it returns, *)
(*   kind "text" : text json.loads refuses (JSONDecodeError); frags lists, *)
(*                 left to right, the places where a quoted key is         *)
(*                 followed by a colon, each [field, shape, text]:         *)
(*                   avro_int     "field": {"int": text}                   *)
(*                   avro_string  "field": {"string": "text"}              *)
(*                   bare_int     "field": text                            *)
(*                   bare_string  "field": "text"                          *)
(*                 (text never holds a double quote).                      *)

BytesBody == [kind |-> "bytes", doc |-> NULL, frags |-> <<>>]

JsonBody(doc) == [kind |-> "json", doc |-> doc, frags |-> <<>>]

TextBody(frags) == [kind |-> "text", doc |-> NULL, frags |-> frags]

Frag(field, shape, text) == [field |-> field, shape |-> shape, text |-> text]

RECURSIVE LeadingDigits(_)
\* what (\d+) takes at the start of a text
LeadingDigits(chars) ==
    IF Len(chars) > 0 /\ Head(chars) \in Digits
    THEN <<Head(chars)>> \o LeadingDigits(Tail(chars))
    ELSE <<>>

\* the four regular expressions of extract_value, in the order tried
Patterns == <<"avro_int", "avro_string", "bare_int", "bare_string">>

\* group(1) of pattern p at fragment g, or <<>> when p does not match there
Group(p, g, field_name) ==
    IF g.field # field_name \/ g.shape # p THEN <<>>
    ELSE CASE p = "avro_int"    -> IF AllDigits(g.text) THEN g.text ELSE <<>>
           [] p = "bare_int"    -> LeadingDigits(g.text)
           [] OTHER             -> g.text

\* re.search(pattern, avro_string): the leftmost match, 0 when there is none
Search(p, frags, field_name) ==
    IF \E i \in 1..Len(frags) : Group(p, frags[i], field_name) # <<>>
    THEN CHOOSE i \in 1..Len(frags) :
            /\ Group(p, frags[i], field_name) # <<>>
            /\ \A j \in 1..(i - 1) : Group(p, frags[j], field_name) = <<>>
    ELSE 0

\* try: return int(value)  except ValueError: return value
IntOrText(value) ==
    IF IsError(ParseInt(value)) THEN PyStr(value) ELSE ParseInt(value)

RECURSIVE ExtractFrom(_, _, _)
\* the loop of extract_value over patterns k, k+1, ...
ExtractFrom(k, frags, field_name) ==
    IF k > Len(Patterns) THEN NULL
    ELSE LET i == Search(Patterns[k], frags, field_name)
         IN  IF i # 0 THEN IntOrText(Group(Patterns[k], frags[i], field_name))
             ELSE ExtractFrom(k + 1, frags, field_name)

extract_value(field_name, frags) == ExtractFrom(1, frags, field_name)

\* ConfluentMessageParser._parse_avro_string
parse_avro_string(frags, version) ==
    BronzeTransHst2([f \in FieldNames |-> extract_value(f, frags)], version)

\* data.get(key)
Get(data, key) == IF key \in DOMAIN data.m THEN data.m[key] ELSE NULL

\* the field container: json_data['value'], else json_data['payload'], else json_data
Container(json_data) ==
    IF "value" \in DOMAIN json_data.m THEN json_data.m["value"]
    ELSE IF "payload" \in DOMAIN json_data.m THEN json_data.m["payload"]
    ELSE json_data

\* the keyword of BronzeTransHst2(...) for field f
JsonField(data, f) ==
    IF f \in TimeFields THEN convert_timestamp(Get(data, f)) ELSE Get(data, f)

\* ConfluentMessageParser._parse_json_message; `in`, [] and .get raise on a
\* document or a container that is not a dict
parse_json_message(json_data, version) ==
    IF json_data.t # "dict" THEN Raised("TypeError")
    ELSE IF Container(json_data).t # "dict" THEN Raised("AttributeError")
    ELSE BronzeTransHst2([f \in FieldNames |-> JsonField(Container(json_data), f)],
                         version)

ErrorRecordId == PyInt(<<"-", "1">>)

ParsingFailed == PyStr(<<"PARSING_FAILED">>)

\* ConfluentMessageParser._create_error_record
create_error_record(raw_data, error_msg, version) ==
    BronzeTransHst2(
        [f \in FieldNames |->
            CASE f = "record_id"   -> ErrorRecordId
              [] f = "data"        -> PyStr(<<"PARSE_ERROR: ", error_msg>>)
              [] f = "description" -> PyStr(<<"raw_data[:100]">>)
              [] f = "name"        -> ParsingFailed
              [] f = "creat_time"  -> IsoFormat(<<"now">>)
              [] OTHER             -> NULL],
        version)

\* a parser that reports a record without any field as a parse failure
parse_rejecting_empty(raw_data, version) ==
    LET parsed == IF raw_data.kind = "json"
                  THEN parse_json_message(raw_data.doc, version)
                  ELSE parse_avro_string(raw_data.frags, version)
    IN  IF parsed.ok /\ \E f \in FieldNames : parsed.fields[f] # NULL THEN parsed
        ELSE create_error_record(raw_data, parsed.exc, version)

\* ConfluentMessageParser.parse_confluent_message on decoded text
parse_confluent_message(raw_data, version) ==
    LET parsed == IF raw_data.kind = "json"
                  THEN parse_json_message(raw_data.doc, version)
                  ELSE parse_avro_string(raw_data.frags, version)
    IN  IF parsed.ok THEN parsed
        ELSE create_error_record(raw_data, parsed.exc, version)

-----------------------------------------------------------------------------
(* The store and the endpoints *)

\* "Keep only last 10 records"
Capacity == 10

NumHandlers == 2

Handlers == 1..NumHandlers

PydanticVersions == {1, 2}

NoRequest == [kind |-> "none", doc |-> NULL, frags |-> <<>>]

Idle == [pc |-> "idle", body |-> NoRequest, seen |-> 0]

NoResponse == [op |-> "none", status |-> 0, body |-> <<>>]

Min(a, b) == IF a < b THEN a ELSE b

\* a trim that keeps the head of the list: bronze_storage[:10]
KeepFirst(storage) ==
    IF Len(storage) > Capacity THEN SubSeq(storage, 1, Capacity) ELSE storage

\* bronze_storage[-10:] when len(bronze_storage) > 10
KeepLast(storage) ==
    IF Len(storage) > Capacity
    THEN SubSeq(storage, Len(storage) - Capacity + 1, Len(storage))
    ELSE storage

\* an increment from the value read before `await request.body()`
StaleIncremented(h) == inflight[h].seen + 1

\* record_counter += 1, as the coroutine of handler h computes it
Incremented(h) == record_counter + 1

\* a read of the counter placed after the clear
CountAfterClear == record_counter'

\* old_count = record_counter
PreviousCount == record_counter

\* a snapshot left in arrival order
NotReversed(storage) == storage

RECURSIVE Reversed(_)
\* list(reversed(storage))
Reversed(storage) ==
    IF storage = <<>> THEN <<>>
    ELSE Append(Reversed(Tail(storage)), Head(storage))

RECURSIVE Filtered(_, _)
\* [r.<field> for r in storage if r.<field>]
Filtered(storage, field) ==
    IF storage = <<>> THEN <<>>
    ELSE IF Truthy(Head(storage).fields[field])
         THEN <<Head(storage).fields[field]>> \o Filtered(Tail(storage), field)
         ELSE Filtered(Tail(storage), field)

SetOf(list) == {list[i] : i \in 1..Len(list)}

\* max(record_ids)
MaxOf(list) == CHOOSE x \in SetOf(list) : \A y \in SetOf(list) : ~IntLess(x, y)

\* the dict get_bronze_stats returns (timestamp and service_uptime left out)
Stats(counter, storage) ==
    LET record_ids   == Filtered(storage, "record_id")
        unique_users == SetOf(Filtered(storage, "creat_usrnbr"))
    IN  [total_records     |-> counter,
         current_storage   |-> Len(storage),
         unique_record_ids |-> IF record_ids # <<>>
                               THEN Cardinality(SetOf(record_ids)) ELSE 0,
         unique_users      |-> Cardinality(unique_users),
         last_record_id    |-> IF record_ids # <<>> THEN MaxOf(record_ids) ELSE NULL]

Init ==
    /\ record_counter = 0
    /\ bronze_storage = <<>>
    /\ inflight = [h \in Handlers |-> Idle]
    /\ response = NoResponse
    /\ next_uuid = 0
    /\ started = 0
    /\ resets = 0
    /\ overlapped = FALSE
    /\ arrivals = <<>>
    /\ last_body = NoRequest
    /\ pydantic \in PydanticVersions

\* POST /webhook/bronze-trans-hst2 up to `await request.body()`
Deliver(h, bodies, limit) ==
    /\ inflight[h].pc = "idle"
    /\ started < limit
    /\ \E b \in bodies :
        inflight' = [inflight EXCEPT ![h] =
                        [pc |-> "body", body |-> b, seen |-> record_counter]]
    /\ started' = started + 1
    /\ UNCHANGED <<record_counter, bronze_storage, response, next_uuid, resets,
                   overlapped, arrivals, last_body, pydantic>>

\* the `except Exception` of receive_bronze_record: HTTP 400, nothing stored
Rejected(h) ==
    /\ response' = [op |-> "post", status |-> 400, body |-> <<>>]
    /\ UNCHANGED <<record_counter, bronze_storage, next_uuid, overlapped, arrivals>>

\* the body of the `try` of receive_bronze_record after the text is decoded
Stored(h, parsed) ==
    LET bronze_record == [fields |-> parsed.fields, processing_id |-> next_uuid + 1]
    IN  /\ bronze_storage' = KeepLast(Append(bronze_storage, bronze_record))
        /\ record_counter' = Incremented(h)
        /\ next_uuid' = next_uuid + 1
        /\ response' = [op |-> "post", status |-> 200,
                        body |-> [total_count   |-> record_counter',
                                  record_id     |-> bronze_record.fields["record_id"],
                                  processing_id |-> bronze_record.processing_id]]
        /\ arrivals' = Append(arrivals, [record |-> bronze_record,
                                         total  |-> record_counter'])
        /\ overlapped' = (overlapped \/ inflight[h].seen # record_counter)

\* POST /webhook/bronze-trans-hst2 from the return of `await request.body()` to
\* the end: no await in between, so one step of the event loop
Receive(h) ==
    /\ inflight[h].pc = "body"
    /\ LET raw_body == inflight[h].body
           parsed   == parse_confluent_message(raw_body, pydantic)
       IN  /\ IF raw_body.kind = "bytes" \/ ~parsed.ok
              THEN Rejected(h)
              ELSE Stored(h, parsed)
           /\ last_body' = raw_body
    /\ inflight' = [inflight EXCEPT ![h] = Idle]
    /\ UNCHANGED <<started, resets, pydantic>>

\* GET /webhook/bronze-trans-hst2
GetRecords ==
    /\ response' = [op |-> "get", status |-> 200,
                    body |-> [total_received  |-> record_counter,
                              last_10_records |-> Reversed(bronze_storage)]]
    /\ UNCHANGED <<record_counter, bronze_storage, inflight, next_uuid, started,
                   resets, overlapped, arrivals, last_body, pydantic>>

\* GET /webhook/bronze-trans-hst2/stats
GetStats ==
    /\ response' = [op |-> "stats", status |-> 200,
                    body |-> Stats(record_counter, bronze_storage)]
    /\ UNCHANGED <<record_counter, bronze_storage, inflight, next_uuid, started,
                   resets, overlapped, arrivals, last_body, pydantic>>

\* GET /dashboard: the records it renders
Dashboard ==
    /\ response' = [op |-> "dashboard", status |-> 200,
                    body |-> [total_received  |-> record_counter,
                              last_10_records |-> Reversed(bronze_storage)]]
    /\ UNCHANGED <<record_counter, bronze_storage, inflight, next_uuid, started,
                   resets, overlapped, arrivals, last_body, pydantic>>

\* POST /webhook/bronze-trans-hst2/reset
Reset(limit) ==
    /\ resets < limit
    /\ LET old_count == PreviousCount
       IN  /\ record_counter' = 0
           /\ bronze_storage' = <<>>
           /\ response' = [op |-> "reset", status |-> 200,
                           body |-> [previous_count |-> old_count]]
    /\ resets' = resets + 1
    /\ arrivals' = <<>>
    /\ UNCHANGED <<inflight, next_uuid, started, overlapped, last_body, pydantic>>

-----------------------------------------------------------------------------
(* Spec: the store under deliveries, reads and resets.  Every body is the  *)
(* same JSON document; the records are told apart by their processing_id.  *)

MaxDeliveries == 15

MaxResets == 1

StoreHandlers == 1

PlainDoc == PyDict([k \in {"record_id"} |-> PyInt(<<"7">>)])

StoreBodies == {JsonBody(PlainDoc)}

Next ==
    \/ \E h \in 1..Min(StoreHandlers, NumHandlers) :
            Deliver(h, StoreBodies, MaxDeliveries)
    \/ \E h \in Handlers : Receive(h)
    \/ GetRecords
    \/ GetStats
    \/ Dashboard
    \/ Reset(MaxResets)

Spec == Init /\ [][Next]_vars

-----------------------------------------------------------------------------
(* SpecConcurrent: deliveries only, on every handler at once *)

MaxConcurrentDeliveries == 12

NextConcurrent ==
    \/ \E h \in Handlers : Deliver(h, StoreBodies, MaxConcurrentDeliveries)
    \/ \E h \in Handlers : Receive(h)

SpecConcurrent == Init /\ [][NextConcurrent]_vars

-----------------------------------------------------------------------------
(* SpecStats: a few deliveries whose records differ in record_id and        *)
(* creat_usrnbr, then the statistics                                       *)

MaxStatsDeliveries == 4

Doc2(k1, v1, k2, v2) == PyDict([k \in {k1, k2} |-> IF k = k1 THEN v1 ELSE v2])

StatsBodies ==
    {JsonBody(PyDict(NoMap)),
     JsonBody(PyList(<<>>)),
     JsonBody(Doc2("record_id", PyInt(<<"0">>), "creat_usrnbr", PyInt(<<"0">>))),
     JsonBody(Doc2("record_id", PyInt(<<"7">>), "creat_usrnbr", PyInt(<<"5">>))),
     JsonBody(Doc2("record_id", PyInt(<<"1", "2">>), "creat_usrnbr", PyInt(<<"5">>)))}

NextStats ==
    \/ Deliver(1, StatsBodies, MaxStatsDeliveries)
    \/ Receive(1)
    \/ GetStats

SpecStats == Init /\ [][NextStats]_vars

-----------------------------------------------------------------------------
(* SpecDecode: one delivery of each body of DecodeBodies to the empty      *)
(* store; the first state is the handler suspended at its body read.       *)

Epoch0 == PyInt(<<"0">>)

EpochSeconds == PyInt(<<"1", "7", "0", "0", "0", "0", "0", "0", "0", "0">>)

EpochMillis == PyInt(<<"1", "7", "0", "0", "0", "0", "0", "0", "0", "0", "0", "0", "0">>)

\* the values a key of a JSON document takes
JsonValues ==
    {NULL, Epoch0, PyInt(<<"7">>), EpochSeconds, EpochMillis,
     PyStr(<<>>), PyStr(<<"a">>), PyStr(<<"0", "7">>),
     PyDict([k \in {"int"} |-> PyInt(<<"7">>)])}

\* numbers at the edges of _convert_timestamp: before the epoch, seconds past
\* year 9999, and milliseconds before the epoch
BeforeEpoch == PyInt(<<"-", "5">>)

SecondsOutOfRange == PyInt(<<"9", "9", "9", "9", "9", "9", "9", "9", "9", "9", "9", "9">>)

MillisBeforeEpoch == PyInt(<<"-", "1", "7", "0", "0", "0", "0", "0", "0", "0", "0", "0", "0", "0">>)

TimestampValues == {BeforeEpoch, SecondsOutOfRange, MillisBeforeEpoch}

\* the fields that appear together with another field
PairedFields == {"record_id", "name", "creat_time"}

Doc1(k1, v1) == PyDict([k \in {k1} |-> v1])

\* field containers: no field, one of the 21 fields, a timestamp at an edge,
\* two of PairedFields, or a key that is no field
Containers ==
    {PyDict(NoMap), Doc1("unknown", PyInt(<<"7">>))}
    \cup {Doc1(f, v) : f \in FieldNames, v \in JsonValues}
    \cup {Doc1(f, v) : f \in TimeFields, v \in TimestampValues}
    \cup {Doc2(f[1], v[1], f[2], v[2]) :
            f \in {g \in PairedFields \X PairedFields : g[1] # g[2]},
            v \in JsonValues \X JsonValues}

\* documents: a container bare or in an envelope, an envelope that holds no
\* container, and documents that are no object
JsonDocs ==
    Containers
    \cup {Doc1("value", c) : c \in Containers}
    \cup {Doc1("payload", c) : c \in Containers}
    \cup {Doc2("value", Doc1("record_id", PyInt(<<"7">>)),
               "payload", Doc1("record_id", PyInt(<<"8">>)))}
    \cup {Doc2("value", v, "record_id", PyInt(<<"7">>)) :
            v \in {NULL, PyInt(<<"7">>), PyStr(<<"a">>)}}
    \cup {NULL, PyInt(<<"7">>), PyStr(<<"v", "a", "l", "u", "e">>), PyList(<<>>)}

\* the texts between the delimiters of a fragment
FragTexts == {<<>>, <<"7">>, <<"0", "7">>, <<"a">>, <<"-", "5">>, <<"7", "a">>,
              EpochMillis.s}

Frags == {Frag(f, p, x) : f \in FieldNames, p \in SetOf(Patterns), x \in FragTexts}

PairedFrags == {g \in Frags : g.field \in PairedFields /\ g.text \in {<<"7">>, <<"a">>}}

\* texts that are not JSON: nothing to find, a key that is no field, one
\* fragment, two fragments of PairedFields
Texts ==
    {<<>>, <<Frag("unknown", "bare_int", <<"7">>)>>}
    \cup {<<g>> : g \in Frags}
    \cup {<<g, h>> : g \in PairedFrags, h \in PairedFrags}

DecodeBodies ==
    {BytesBody} \cup {JsonBody(d) : d \in JsonDocs} \cup {TextBody(t) : t \in Texts}

InitDecode ==
    /\ record_counter = 0
    /\ bronze_storage = <<>>
    /\ \E b \in DecodeBodies :
        inflight = [h \in Handlers |->
                        IF h = 1 THEN [pc |-> "body", body |-> b, seen |-> 0] ELSE Idle]
    /\ response = NoResponse
    /\ next_uuid = 0
    /\ started = 1
    /\ resets = 0
    /\ overlapped = FALSE
    /\ arrivals = <<>>
    /\ last_body = NoRequest
    /\ pydantic \in PydanticVersions

NextDecode == \E h \in Handlers : Receive(h)

SpecDecode == InitDecode /\ [][NextDecode]_vars

-----------------------------------------------------------------------------
(* The store: C1, C2, C5, C6 *)

AllIdle == \A h \in Handlers : inflight[h].pc = "idle"

Suspended == {h \in Handlers : inflight[h].pc = "body"}

\* C1 (Spec): with k the number of appends since the last reset (or since
\* start), record_counter is k, the buffer holds min(k, 10) records, and they are
\* the last min(k, 10) records appended, oldest first.
C1_SlidingWindow ==
    LET k == Len(arrivals)
        n == Len(bronze_storage)
    IN  /\ record_counter = k
        /\ n = Min(k, Capacity)
        /\ \A i \in 1..n : bronze_storage[i] = arrivals[k - n + i].record

\* 15 appends and no reset: size 10, total 15, records #6..#15 in arrival order
C1_Witness ==
    /\ resets = 0
    /\ record_counter = 15
    /\ Len(bronze_storage) = 10
    /\ \A i \in 1..10 : bronze_storage[i].processing_id = i + 5

\* C2 (SpecConcurrent): with deliveries interleaved at their body reads and no
\* reset, every delivery that has run its append is counted: the total is the
\* number of deliveries made less those still suspended, so N once all N have
\* completed, and the buffer has lost no record but to eviction.
C2_NoLostUpdate ==
    /\ record_counter = started - Cardinality(Suspended)
    /\ Len(bronze_storage) = Min(record_counter, Capacity)
    /\ Len(arrivals) = record_counter

\* more than 10 deliveries completed, some of them overlapping another's append
C2_Witness ==
    /\ AllIdle
    /\ overlapped
    /\ started > Capacity
    /\ record_counter = started

\* C5 (Spec): a reset reports the number of appends since the previous reset
\* (or since start) and leaves the counter at 0 and the buffer empty, in one step.
C5_ResetReportsTotal ==
    [][resets' # resets =>
        /\ response'.op = "reset"
        /\ response'.body.previous_count = Len(arrivals)
        /\ record_counter' = 0
        /\ bronze_storage' = <<>>]_vars

\* a reset after more than 10 appends, with a delivery suspended across it
C5_Witness ==
    /\ response.op = "reset"
    /\ response.body.previous_count > Capacity
    /\ record_counter = 0
    /\ bronze_storage = <<>>
    /\ Suspended # {}

\* C6 (Spec): the records a read (the GET endpoint, the dashboard) returns are
\* the buffer reversed: same length, element i is arrival element size + 1 - i.
C6_NewestFirstIsReverse ==
    response.op \in {"get", "dashboard"} =>
        LET n == Len(bronze_storage)
            newest_first == response.body.last_10_records
        IN  /\ Len(newest_first) = n
            /\ \A i \in 1..n : newest_first[i] = bronze_storage[n + 1 - i]

\* a read of a full buffer after an eviction
C6_Witness ==
    /\ response.op = "get"
    /\ record_counter > Capacity
    /\ Len(response.body.last_10_records) = Capacity
    /\ response.body.last_10_records[1].processing_id = record_counter

-----------------------------------------------------------------------------
(* Deliveries and decoding: C3, C4, C7, C8, C10 *)

\* a POST completed, and this is the body it carried
Posted(b) == response.op = "post" /\ last_body = b

\* the POST that completed last stored a record
Accepted == response.op = "post" /\ response.status = 200

\* the record stored by the POST that completed last
StoredFields == arrivals[Len(arrivals)].record.fields

IsErrorRecord(fields) ==
    fields["record_id"] = ErrorRecordId /\ fields["name"] = ParsingFailed

AllNull(fields) == \A f \in FieldNames : fields[f] = NULL

\* C3 (SpecDecode): every delivery, whatever its bytes, ends with a record
\* appended and the total incremented; bytes that are not UTF-8 give the error
\* record (record_id -1, name PARSING_FAILED), never a rejected request.
C3_EveryDeliveryStored ==
    response.op = "post" =>
        /\ response.status = 200
        /\ record_counter = 1
        /\ Len(bronze_storage) = 1
        /\ (last_body.kind = "bytes" => IsErrorRecord(bronze_storage[1].fields))

\* the structured strategy recovers no field: the document or its container is
\* no object, or the container has none of the 21 keys with a value
NothingInJson(doc) ==
    \/ doc.t # "dict"
    \/ Container(doc).t # "dict"
    \/ \A f \in FieldNames : Get(Container(doc), f) = NULL

\* the pattern strategy recovers no field
NothingInText(frags) == \A f \in FieldNames : extract_value(f, frags) = NULL

NothingRecoverable(b) ==
    \/ b.kind = "json" /\ NothingInJson(b.doc)
    \/ b.kind = "text" /\ NothingInText(b.frags)

WellTyped(f, v) ==
    \/ v.t = "null"
    \/ f \in IntFields /\ v.t = "int"
    \/ f \in StrFields /\ v.t = "str"
    \/ f \in TimeFields /\ v.t = "int"

\* a JSON object, bare or in one value/payload envelope, whose container holds
\* well-typed values for some of the 21 fields
ValidStructured(b) ==
    /\ b.kind = "json"
    /\ b.doc.t = "dict"
    /\ Container(b.doc).t = "dict"
    /\ \A f \in FieldNames : WellTyped(f, Get(Container(b.doc), f))

\* the canonical form of a timestamp: null for null, a text unchanged, a number
\* as the ISO text of that instant
Canonical(v) ==
    IF v.t = "null" THEN NULL ELSE IF v.t = "str" THEN v ELSE IsoOrText(v)

\* C7 (SpecDecode): for a valid structured input every present field of the
\* record equals the input value (a timestamp in canonical form), falsy values
\* such as 0 and "" included, and every absent field is null.
C7_StructuredFieldsPreserved ==
    (response.op = "post" /\ ValidStructured(last_body)) =>
        /\ Accepted
        /\ \A f \in FieldNames :
            StoredFields[f] =
                IF f \in TimeFields THEN Canonical(Get(Container(last_body.doc), f))
                ELSE Get(Container(last_body.doc), f)

\* text that is not JSON in which every fragment is "field": {"int": N} or
\* "field": {"string": "S"}, no field twice
AvroShaped(b) ==
    /\ b.kind = "text"
    /\ Len(b.frags) > 0
    /\ \A i \in 1..Len(b.frags) :
        /\ b.frags[i].field \in FieldNames
        /\ \/ b.frags[i].shape = "avro_int" /\ AllDigits(b.frags[i].text)
           \/ b.frags[i].shape = "avro_string" /\ Len(b.frags[i].text) > 0
    /\ \A i, j \in 1..Len(b.frags) : b.frags[i].field = b.frags[j].field => i = j

\* the JSON object {field: N} / {field: "S"} of an Avro-shaped text
EquivalentJson(b) ==
    JsonBody(PyDict(
        [f \in {b.frags[i].field : i \in 1..Len(b.frags)} |->
            LET g == b.frags[CHOOSE i \in 1..Len(b.frags) : b.frags[i].field = f]
            IN  IF g.shape = "avro_int" THEN PyInt(StripZeros(g.text))
                ELSE PyStr(g.text)]))

\* C8 (SpecDecode): for an Avro-shaped text the pattern path gives every
\* field the value the structured path gives for the equivalent JSON object,
\* the timestamp fields and all-digit strings included.
C8_PatternEqualsStructured ==
    (response.op = "post" /\ AvroShaped(last_body)) =>
        /\ Accepted
        /\ \A f \in FieldNames :
            StoredFields[f] =
                parse_confluent_message(EquivalentJson(last_body), pydantic).fields[f]

\* C10 (SpecDecode): on the pattern path every field resolves on its own: a
\* field whose matched value its type can take has that value in the record,
\* whatever was matched for the other fields, and the record is never the
\* PARSING_FAILED record because of another field.
C10_FieldsResolveIndependently ==
    (response.op = "post" /\ last_body.kind = "text") =>
        /\ Accepted
        /\ \A f \in FieldNames :
            LET own == ValidateField(f, extract_value(f, last_body.frags), pydantic)
            IN  ~IsError(own) => StoredFields[f] = own

-----------------------------------------------------------------------------
(* Statistics: C9 *)

RecordIds == {bronze_storage[i].fields["record_id"] : i \in 1..Len(bronze_storage)} \ {NULL}

Users == {bronze_storage[i].fields["creat_usrnbr"] : i \in 1..Len(bronze_storage)} \ {NULL}

\* C9 (SpecStats): the stats count the distinct non-null record_id values of
\* the buffer (0 and -1 count), report their maximum, or nothing when there is
\* none, and count the distinct non-null creat_usrnbr values.
C9_StatsOverNonNull ==
    response.op = "stats" =>
        /\ response.body.unique_record_ids = Cardinality(RecordIds)
        /\ response.body.unique_users = Cardinality(Users)
        /\ IF RecordIds = {} THEN response.body.last_record_id = NULL
           ELSE /\ response.body.last_record_id \in RecordIds
                /\ \A x \in RecordIds : ~IntLess(response.body.last_record_id, x)

-----------------------------------------------------------------------------
(* Serialization of concurrent appends: C11 *)

\* the total_count returned to the delivery that stored the record
ReturnedTotal(record) ==
    arrivals[CHOOSE i \in 1..Len(arrivals) :
                arrivals[i].record.processing_id = record.processing_id].total

\* C11 (SpecConcurrent): each append returns the total after its own
\* increment; the totals returned so far are pairwise distinct and are 1..k in
\* the order the appends ran; of two records in the buffer the one whose append
\* returned the smaller total is nearer the head.
C11_SerializedInBufferOrder ==
    /\ \A i \in 1..Len(arrivals) : arrivals[i].total = i
    /\ \A i, j \in 1..Len(arrivals) :
        arrivals[i].total = arrivals[j].total => i = j
    /\ Accepted => response.body.total_count = record_counter
    /\ \A i, j \in 1..Len(bronze_storage) :
        ReturnedTotal(bronze_storage[i]) < ReturnedTotal(bronze_storage[j]) <=> i < j

\* both handlers were suspended together, the appends went on past an eviction,
\* and the last one returned the number of deliveries made
C11_Witness ==
    /\ AllIdle
    /\ overlapped
    /\ Accepted
    /\ response.body.total_count = started
    /\ started > Capacity
    /\ ReturnedTotal(bronze_storage[1]) = started - Capacity + 1

-----------------------------------------------------------------------------
(* Timestamp normalization: C12 *)

\* a number read as epoch milliseconds: the ISO text, or "error" out of range
MillisToIso(v) ==
    IF IsNegative(v)
    THEN IF DigitsLess(MinEpochSecondsMagnitude \o <<"0", "0", "0">>, Magnitude(v))
         THEN Failure
         ELSE IsoFormat(v.s)
    ELSE FromMillis(v)

\* the result selected by the kind of the input: null for null, a text
\* unchanged, a number as milliseconds when its magnitude exceeds 10^12 and as
\* seconds otherwise, its plain text when the conversion fails
NormalizedByKind(v) ==
    IF v.t = "null" THEN NULL
    ELSE IF v.t = "str" THEN v
    ELSE LET iso == IF DigitsLess(MillisThreshold, Magnitude(v)) THEN MillisToIso(v)
                    ELSE FromSeconds(v)
         IN  IF IsError(iso) THEN Repr(v) ELSE iso

\* C12 (SpecDecode): _convert_timestamp never raises and selects its result by
\* the kind of its input: null and only null gives null, every text (the empty
\* one included) comes back unchanged, every number (0 and negatives included)
\* is read as milliseconds when its magnitude exceeds 10^12 and as seconds
\* otherwise, with its plain text as the fallback.
C12_TimestampSelectedByKind ==
    (response.op = "post" /\ ValidStructured(last_body)) =>
        /\ Accepted
        /\ \A f \in TimeFields :
            LET timestamp_value == Get(Container(last_body.doc), f)
            IN  /\ StoredFields[f] = NormalizedByKind(timestamp_value)
                /\ StoredFields[f] = NULL <=> timestamp_value = NULL

====
